---- MODULE Spec2Model ----
(***************************************************************************)
(* Model of the matrix constraint tools (matrixconstrainttools.py) and the *)
(* ribbon rig builder (ribbontools.py).  The host scene graph is modelled  *)
(* as a set of nodes, a set of attribute connections, a parent relation    *)
(* and a table of attribute values; each method of the tools is one        *)
(* action.  A host error (mc.error, or a host command that fails) aborts   *)
(* the method where it happens and keeps what was done before it.          *)
(*                                                                         *)
(* Weights computed with Python floats are modelled as exact rationals     *)
(* <<numerator, denominator>> in lowest terms; the literal .333 is the     *)
(* rational 333/1000.                                                      *)
(***************************************************************************)
EXTENDS Integers, Sequences, FiniteSets, TLC

VARIABLES
    \* ---- host scene graph ----
    selection,      \* mc.ls(sl=True): the selected objects, in selection order
    nodes,          \* set of [name, type]: the nodes of the scene
    conns,          \* set of [src, dst]: attribute connections
    parents,        \* set of [child, parent]: the DAG parent of a node
    attrs,          \* set of [attr, val]: attribute values set by the tools
    \* ---- the current Matrix instance (Constraint or BlendColor) ----
    cls,            \* "none", "Constraint" or "BlendColor"
    mo,             \* self.mo
    drivers,        \* self.drivers
    driven,         \* self.driven
    \* ---- the current Ribbon instance ----
    rib,            \* record of the Ribbon's fields, status "none" before construction
    skinCalls,      \* the mc.skinPercent calls of the last skinning method, in order
    \* ---- outcome of the last method call ----
    last,           \* [op, error, warning, ret, arg]: what was called and how it ended
    numCalls        \* the number of constructor and method calls of the constraint tools

vars == <<selection, nodes, conns, parents, attrs, cls, mo, drivers, driven,
          rib, skinCalls, last, numCalls>>

sceneVars == <<selection, nodes, conns, parents, attrs>>
instVars == <<cls, mo, drivers, driven>>
ribVars == <<rib, skinCalls>>

-----------------------------------------------------------------------------
(* Bounds of the model *)

MaxJointNum == 5
MaxDriverJointNum == 4
MaxSel == 4
MaxCalls == 3
MaxRivets == 3
MaxHelperCalls == 5

-----------------------------------------------------------------------------
(* Suffix and attribute constants *)

RIB == "_ribbon"
RIG == "_rig"
RIV == "_riv"
GRP == "_grp"
POS == "_pos"
ROT == "_rot"
SCL == "_scale"
BC == "_bc"
POS_ATTR == ".translate"
ROT_ATTR == ".rotate"
SCL_ATTR == ".scale"
OUT == ".output"
MTRXIN == ".inputMatrix"
WM == ".worldMatrix[0]"
NML == ".normal"
TANU == ".tangentU"
TANV == ".tangentV"
VECTORS == <<"X", "Y", "Z">>

NoError == ""
NoWarning == ""

-----------------------------------------------------------------------------
(* Exact rational arithmetic for the float expressions of the weights *)

RECURSIVE GCD(_, _)
GCD(a, b) == IF b = 0 THEN a ELSE GCD(b, a % b)

Abs(a) == IF a < 0 THEN -a ELSE a

Rat(n, d) ==
    LET g == GCD(Abs(n), Abs(d))
        s == IF d < 0 THEN -1 ELSE 1
    IN  <<(s * n) \div g, (s * d) \div g>>

RatInt(n) == <<n, 1>>
RatAdd(p, q) == Rat(p[1] * q[2] + q[1] * p[2], p[2] * q[2])
RatSub(p, q) == Rat(p[1] * q[2] - q[1] * p[2], p[2] * q[2])
RatMul(p, q) == Rat(p[1] * q[1], p[2] * q[2])
RatLeq(p, q) == p[1] * q[2] <= q[1] * p[2]

RatOne == RatInt(1)
RatZero == RatInt(0)

\* the literal .333 of thrdFrac = .333 * frac
PointThreeThreeThree == Rat(333, 1000)

-----------------------------------------------------------------------------
(* The host scene graph, as the tools use it.  A context c carries the      *)
(* scene and the instance lists through the statements of one method; once  *)
(* c.err is set (an exception was raised) the remaining statements are      *)
(* skipped.                                                                 *)

Plug(node, attr) == [node |-> node, attr |-> attr]

Ctx == [nodes |-> nodes, conns |-> conns, parents |-> parents, attrs |-> attrs,
        drivers |-> drivers, driven |-> driven, err |-> NoError, warn |-> NoWarning]

Failed(c) == c.err # NoError

\* mc.error(msg): raises
Error(c, msg) == IF Failed(c) THEN c ELSE [c EXCEPT !.err = msg]

\* mc.warning(msg): reports and goes on
Warning(c, msg) == IF Failed(c) THEN c ELSE [c EXCEPT !.warn = msg]

\* mc.objExists(name)
ObjExists(c, name) == \E n \in c.nodes : n.name = name

\* the name the host gives a new node asked to be called `name`: the name
\* itself when it is free, else the name with the first free number appended
RECURSIVE FreeName(_, _, _)
FreeName(c, name, k) ==
    IF ~ObjExists(c, name \o ToString(k)) THEN name \o ToString(k)
    ELSE FreeName(c, name, k + 1)

NewName(c, name) == IF ObjExists(c, name) THEN FreeName(c, name, 1) ELSE name

\* mc.createNode / mc.shadingNode / mc.spaceLocator / mc.joint / mc.curve (type, n=name)
CreateNode(c, type, name) ==
    IF Failed(c) THEN c
    ELSE [c EXCEPT !.nodes = @ \cup {[name |-> NewName(c, name), type |-> type]}]

\* mc.listRelatives(obj, p=True): the parent's name, "" for None
ParentOf(c, obj) ==
    IF \E p \in c.parents : p.child = obj
    THEN (CHOOSE p \in c.parents : p.child = obj).parent
    ELSE ""

\* mc.parent(child, parent): fails when either object does not exist
SetParent(c, child, parent) ==
    IF Failed(c) THEN c
    ELSE IF ~ObjExists(c, child) \/ ~ObjExists(c, parent)
    THEN Error(c, "No object matches name")
    ELSE [c EXCEPT !.parents = {p \in @ : p.child # child}
                                \cup {[child |-> child, parent |-> parent]}]

\* mc.setAttr(plug, value): fails when the node does not exist
SetAttr(c, plug, val) ==
    IF Failed(c) THEN c
    ELSE IF ~ObjExists(c, plug.node) THEN Error(c, "No object matches name")
    ELSE [c EXCEPT !.attrs = {a \in @ : a.plug # plug} \cup {[plug |-> plug, val |-> val]}]

\* mc.connectionInfo(plug, id=1): is the plug the destination of a connection
IsDestination(c, plug) == \E k \in c.conns : k.dst = plug

\* mc.connectAttr(src, dst, f=force): fails when a node does not exist, and,
\* unless forced, when dst already has an incoming connection
ConnectAttr(c, src, dst, force) ==
    IF Failed(c) THEN c
    ELSE IF ~ObjExists(c, src.node) \/ ~ObjExists(c, dst.node)
    THEN Error(c, "No object matches name")
    ELSE IF IsDestination(c, dst) /\ ~force
    THEN Error(c, "already has an incoming connection")
    ELSE [c EXCEPT !.conns = {k \in @ : k.dst # dst} \cup {[src |-> src, dst |-> dst]}]

\* mc.setAttr on several attributes of one node (a loop over VECTORS)
SetAttrs(c, node, names, val) ==
    IF Failed(c) THEN c
    ELSE IF ~ObjExists(c, node) THEN Error(c, "No object matches name")
    ELSE [c EXCEPT !.attrs = {a \in @ : ~(a.plug.node = node /\ a.plug.attr \in names)}
                              \cup {[plug |-> Plug(node, n), val |-> val] : n \in names}]

-----------------------------------------------------------------------------
(* Ribbon (ribbontools.py) *)

\* str(i).zfill(2)
ZFill2(i) == IF i < 10 THEN "0" \o ToString(i) ELSE ToString(i)

NoRibbon ==
    [status |-> "none", name |-> "", jointNum |-> 0, driverJointNum |-> 0,
     primaryAxis |-> "", spans |-> 0, ribbon |-> "", lenCurves |-> <<>>,
     driverJoints |-> <<>>, proxies |-> <<>>, proxieCrv |-> ""]

\* the name of the i-th proxy locator (i = 0 .. driverJointNum - 1)
PrxyName(name, i, driverJointNum) ==
    IF i = 0 THEN name \o "_base_prxy"
    ELSE IF i = driverJointNum - 1 THEN name \o "_tip_prxy"
    ELSE IF i >= 1 /\ driverJointNum >= 4 THEN name \o "_mid" \o ZFill2(i) \o "_prxy"
    ELSE name \o "_mid_prxy"

\* the attributes locked on the i-th proxy
PrxyLocked(i, primaryAxis) ==
    IF i = 0 THEN {"scale" \o VECTORS[v] \o ":lock" : v \in 1..3}
    ELSE {"scale" \o VECTORS[v] \o ":lock" : v \in 1..3}
         \cup {"translate" \o VECTORS[v] \o ":lock" :
                   v \in {w \in 1..3 : VECTORS[w] # primaryAxis}}

\* iterations i .. driverJointNum - 1 of the proxy loop of Ribbon.__init__
RECURSIVE PrxyLoop(_, _, _, _, _, _, _, _)
PrxyLoop(c, r, i, name, driverJointNum, primaryAxis, prxyGrp, prevPrxy) ==
    IF i >= driverJointNum \/ Failed(c) THEN <<c, r>>
    ELSE
      LET prxy == PrxyName(name, i, driverJointNum)
          c1 == CreateNode(c, "locator", prxy)
          c2 == SetAttr(c1, Plug(prxy, "translate" \o primaryAxis), RatInt(i * 10))
          c3 == SetAttrs(c2, prxy, PrxyLocked(i, primaryAxis), RatOne)
          c4 == IF i = 0 THEN SetParent(c3, prxy, prxyGrp)
                ELSE SetParent(c3, prxy, prevPrxy)
          r1 == IF Failed(c4) THEN r ELSE [r EXCEPT !.proxies = Append(@, prxy)]
      IN  PrxyLoop(c4, r1, i + 1, name, driverJointNum, primaryAxis, prxyGrp, prxy)

\* the cluster loop of Ribbon.__init__: one cluster handle per proxy
RECURSIVE ClstrLoop(_, _, _)
ClstrLoop(c, r, i) ==
    IF i > Len(r.proxies) \/ Failed(c) THEN c
    ELSE
      LET clstr == NewName(c, "cluster" \o ToString(i) \o "Handle")
          c1 == CreateNode(c, "clusterHandle", clstr)
          c2 == SetAttr(c1, Plug(clstr, "visibility"), RatZero)
          c3 == SetParent(c2, clstr, r.proxies[i])
      IN  ClstrLoop(c3, r, i + 1)

\* mutant: the two minimums are joined by "and"
ArgsRejectedBoth(jointNum, driverJointNum) == jointNum < 3 /\ driverJointNum < 2

\* the argument check of Ribbon.__init__
ArgsRejected(jointNum, driverJointNum) == jointNum < 3 \/ driverJointNum < 2

\* Ribbon.__init__(name, jointNum, driverJointNum, primaryAxis).  setAttrFails
\* is the outcome of the host's setAttr called with no value on inheritsTransform.
RibbonNew(c, name, jointNum, driverJointNum, primaryAxis, setAttrFails) ==
    LET r0 == [NoRibbon EXCEPT !.status = "built", !.name = name,
                               !.jointNum = jointNum,
                               !.driverJointNum = driverJointNum,
                               !.primaryAxis = primaryAxis,
                               !.spans = (jointNum - 1) * (driverJointNum - 1)]
    IN  IF ArgsRejected(jointNum, driverJointNum)
        THEN <<Error(c, "Rig needs a minimum of 2 drivers and 3 joints"), r0>>
        ELSE
          LET prxyGrp == NewName(c, name \o "_prxy" \o GRP)
              c1 == CreateNode(c, "transform", name \o "_prxy" \o GRP)
              lp == PrxyLoop(c1, r0, 0, name, driverJointNum, primaryAxis,
                             prxyGrp, name \o "_base_prxy")
              c2 == lp[1]
              crv == NewName(c2, name \o "_prxyCrv")
              c3 == CreateNode(c2, "nurbsCurve", name \o "_prxyCrv")
              r3 == IF Failed(c3) THEN lp[2] ELSE [lp[2] EXCEPT !.proxieCrv = crv]
              c4 == SetParent(c3, crv, prxyGrp)
              c5 == IF setAttrFails THEN Error(c4, "setAttr: no value given") ELSE c4
              c6 == ClstrLoop(c5, r3, 1)
          IN  <<c6, r3>>

\* Matrix.mk_parent_grp(obj): a new group takes the place of obj under its
\* parent and becomes the parent of obj
MkParentGrp(c, obj) ==
    LET parent == ParentOf(c, obj)
        grp == NewName(c, obj \o GRP)
        c1 == CreateNode(c, "transform", obj \o GRP)
        c2 == IF parent # "" THEN SetParent(c1, grp, parent) ELSE c1
    IN  SetParent(c2, obj, grp)

\* Ribbon.mk_ribbon()
MkRibbonDo(c, r) ==
    LET want == r.name \o RIB
        grp == want \o GRP
        ribbon == IF ~ObjExists(c, want) THEN NewName(c, want) ELSE want
        c1 == IF ~ObjExists(c, want) THEN CreateNode(c, "nurbsSurface", want) ELSE c
        \* listRelatives returns a list, never equal to the string grp
        c2 == MkParentGrp(c1, ribbon)
        c3 == SetAttr(c2, Plug(grp, "rotateOrder"), RatOne)
    IN  <<c3, IF Failed(c3) THEN r ELSE [r EXCEPT !.ribbon = ribbon]>>

\* Ribbon.mk_len_crv(); the curve is named after the ribbon, "ribbon" replaced by "crv"
MkLenCrvDo(c, r) ==
    LET crv == NewName(c, r.name \o "_crv")
        c0 == IF ~ObjExists(c, r.ribbon) THEN Error(c, "No object matches name") ELSE c
        c1 == CreateNode(c0, "nurbsCurve", r.name \o "_crv")
        c2 == SetAttr(c1, Plug(crv, "visibility"), RatZero)
        c3 == SetParent(c2, crv, r.ribbon \o GRP)
    IN  <<c3, IF Failed(c3) THEN r ELSE [r EXCEPT !.lenCurves = Append(@, crv)]>>

\* the name asked for the i-th driver joint
DriverJntName(name, i, driverJointNum) ==
    IF i = 0 THEN name \o "_base_driver_jnt"
    ELSE IF i = driverJointNum - 1 THEN name \o "_tip_driver_jnt"
    ELSE IF i = 1 /\ driverJointNum = 3 THEN name \o "_mid_driver_jnt"
    ELSE name \o "_mid" \o ZFill2(i) \o "_driver_jnt"

\* iterations i .. driverJointNum - 1 of the loop of Ribbon.mk_driver_joints
RECURSIVE DriverJntLoop(_, _, _)
DriverJntLoop(c, r, i) ==
    IF i >= r.driverJointNum \/ Failed(c) THEN <<c, r>>
    ELSE
      LET jnt == NewName(c, DriverJntName(r.name, i, r.driverJointNum))
          c1 == CreateNode(c, "joint", DriverJntName(r.name, i, r.driverJointNum))
          \* arclen(proxieCrv) / (driverJointNum - 1) of a curve of 10 per proxy
          c2 == IF i = 0 THEN c1
                ELSE SetAttr(c1, Plug(jnt, "translate" \o r.primaryAxis), RatInt(10))
          r1 == IF Failed(c2) THEN r ELSE [r EXCEPT !.driverJoints = Append(@, jnt)]
      IN  DriverJntLoop(c2, r1, i + 1)

\* Ribbon.mk_driver_joints()
MkDriverJointsDo(c, r) ==
    LET lp == DriverJntLoop(c, r, 0)
        c1 == lp[1]
        driverGrp == NewName(c1, r.name \o "_driver_jnt_grp")
        c2 == CreateNode(c1, "transform", r.name \o "_driver_jnt_grp")
        c3 == IF Failed(c2) THEN c2 ELSE SetParent(c2, lp[2].driverJoints[1], driverGrp)
        c4 == SetParent(c3, driverGrp, r.name \o RIG)
    IN  <<c4, lp[2]>>

-----------------------------------------------------------------------------
(* Skin weights *)

\* frac = 1.0 / self.spans
Frac(spans) == Rat(1, spans)

\* mutant: an exact third of a step in place of .333 of it
ThrdFracExact(spans) == RatMul(Rat(1, 3), Frac(spans))

\* thrdFrac = .333 * frac
ThrdFrac(spans) == RatMul(PointThreeThreeThree, Frac(spans))

\* mutant: the last row is tested against cvrows, so it takes the linear branch
DuoWeightsLastRow(i, cvrows, frac, thrdFrac) ==
    IF i = 0 THEN <<RatOne, RatZero>>
    ELSE IF i = 1 THEN <<RatSub(RatOne, thrdFrac), thrdFrac>>
    ELSE IF i = cvrows - 2 THEN <<thrdFrac, RatSub(RatOne, thrdFrac)>>
    ELSE IF i = cvrows THEN <<RatZero, RatOne>>
    ELSE <<RatSub(RatOne, RatMul(RatInt(i - 1), frac)), RatMul(RatInt(i - 1), frac)>>

\* mutant: the linear rows step from i instead of i - 1
DuoWeightsFromI(i, cvrows, frac, thrdFrac) ==
    IF i = 0 THEN <<RatOne, RatZero>>
    ELSE IF i = 1 THEN <<RatSub(RatOne, thrdFrac), thrdFrac>>
    ELSE IF i = cvrows - 2 THEN <<thrdFrac, RatSub(RatOne, thrdFrac)>>
    ELSE IF i = cvrows - 1 THEN <<RatZero, RatOne>>
    ELSE <<RatSub(RatOne, RatMul(RatInt(i), frac)), RatMul(RatInt(i), frac)>>

\* <<btwt, tpwt>> of CV row i in skin_duo_drivers
DuoWeights(i, cvrows, frac, thrdFrac) ==
    IF i = 0 THEN <<RatOne, RatZero>>
    ELSE IF i = 1 THEN <<RatSub(RatOne, thrdFrac), thrdFrac>>
    ELSE IF i = cvrows - 2 THEN <<thrdFrac, RatSub(RatOne, thrdFrac)>>
    ELSE IF i = cvrows - 1 THEN <<RatZero, RatOne>>
    ELSE <<RatSub(RatOne, RatMul(RatInt(i - 1), frac)), RatMul(RatInt(i - 1), frac)>>

\* the number of CV rows between driver joints n and n + 1 in skin_to_drivers
CvRows(n, driverJointNum, spansPer) ==
    IF n = 0 /\ driverJointNum = 2 THEN spansPer + 3
    ELSE IF (n = 0 /\ driverJointNum >= 3) \/ (n = driverJointNum /\ driverJointNum >= 3)
    THEN spansPer + 2
    ELSE spansPer + 1

\* mutant: the tip weight of the linear rows steps from i, the base weight from i - 1
SegWeightsTipFromI(i, n, cvrows, driverJointNum, frac, thrdFrac) ==
    IF i = 0 THEN <<RatOne, RatZero>>
    ELSE IF i = 1 /\ n = 0 THEN <<RatSub(RatOne, thrdFrac), thrdFrac>>
    ELSE IF i = cvrows - 2 /\ n = driverJointNum - 2
    THEN <<thrdFrac, RatSub(RatOne, thrdFrac)>>
    ELSE IF i = cvrows - 1 THEN <<RatZero, RatOne>>
    ELSE <<RatSub(RatOne, RatMul(RatInt(i - 1), frac)), RatMul(RatInt(i), frac)>>

\* mutant: the damped rows of the two ends are exchanged
SegWeightsSwapped(i, n, cvrows, driverJointNum, frac, thrdFrac) ==
    IF i = 0 THEN <<RatOne, RatZero>>
    ELSE IF i = 1 /\ n = 0 THEN <<thrdFrac, RatSub(RatOne, thrdFrac)>>
    ELSE IF i = cvrows - 2 /\ n = driverJointNum - 2
    THEN <<RatSub(RatOne, thrdFrac), thrdFrac>>
    ELSE IF i = cvrows - 1 THEN <<RatZero, RatOne>>
    ELSE <<RatSub(RatOne, RatMul(RatInt(i - 1), frac)), RatMul(RatInt(i - 1), frac)>>

\* <<btwt, tpwt>> of CV row i of segment n in skin_to_drivers
SegWeights(i, n, cvrows, driverJointNum, frac, thrdFrac) ==
    IF i = 0 THEN <<RatOne, RatZero>>
    ELSE IF i = 1 /\ n = 0 THEN <<RatSub(RatOne, thrdFrac), thrdFrac>>
    ELSE IF i = cvrows - 2 /\ n = driverJointNum - 2
    THEN <<thrdFrac, RatSub(RatOne, thrdFrac)>>
    ELSE IF i = cvrows - 1 THEN <<RatZero, RatOne>>
    ELSE <<RatSub(RatOne, RatMul(RatInt(i - 1), frac)), RatMul(RatInt(i - 1), frac)>>

\* the two mc.skinPercent calls of one CV row: on the ribbon and on the curve
RowCalls(fn, r, n, i, cvrows, btDriver, tpDriver, w) ==
    LET call(geo) == [fn |-> fn, geo |-> geo, seg |-> n, row |-> i, cvrows |-> cvrows,
                      btDriver |-> btDriver, tpDriver |-> tpDriver,
                      btwt |-> w[1], tpwt |-> w[2]]
    IN  <<call(r.ribbon), call(r.lenCurves[1])>>

\* rows i .. cvrows - 1 of skin_duo_drivers
RECURSIVE DuoRows(_, _, _)
DuoRows(r, i, cvrows) ==
    IF i >= cvrows THEN <<>>
    ELSE RowCalls("skin_duo_drivers", r, 0, i, cvrows, r.driverJoints[1], r.driverJoints[2],
                  DuoWeights(i, cvrows, Frac(r.spans), ThrdFrac(r.spans)))
         \o DuoRows(r, i + 1, cvrows)

\* rows i .. cvrows - 1 of segment n of skin_to_drivers
RECURSIVE SegRows(_, _, _, _)
SegRows(r, n, i, cvrows) ==
    IF i >= cvrows THEN <<>>
    ELSE RowCalls("skin_to_drivers", r, n, i, cvrows,
                  r.driverJoints[n + 1], r.driverJoints[n + 2],
                  SegWeights(i, n, cvrows, r.driverJointNum, Frac(r.spans), ThrdFrac(r.spans)))
         \o SegRows(r, n, i + 1, cvrows)

\* segments n .. driverJointNum - 2 of skin_to_drivers
RECURSIVE SegLoop(_, _)
SegLoop(r, n) ==
    IF n >= r.driverJointNum - 1 THEN <<>>
    ELSE SegRows(r, n, 0, CvRows(n, r.driverJointNum, r.jointNum - 1)) \o SegLoop(r, n + 1)

\* mc.skinCluster(joints, geo, n=name): fails when the geometry is already skinned
SkinCluster(c, geo) ==
    IF Failed(c) THEN c
    ELSE IF ~ObjExists(c, geo) THEN Error(c, "No object matches name")
    ELSE IF ObjExists(c, geo \o "_sc") THEN Error(c, "already connected to a skinCluster")
    ELSE CreateNode(c, "skinCluster", geo \o "_sc")

\* Ribbon.skin_duo_drivers(): <<context, skinPercent calls>>
SkinDuoDriversDo(c, r) ==
    LET crv == r.lenCurves[1]
        c1 == SkinCluster(SkinCluster(c, r.ribbon), crv)
        made == IF Failed(c1) THEN <<>> ELSE DuoRows(r, 0, r.spans + 3)
        c2 == SetAttr(c1, Plug(r.ribbon, "inheritsTransform"), RatZero)
        c3 == SetAttr(c2, Plug(crv, "inheritsTransform"), RatZero)
        driverGrp == NewName(c3, r.name \o "_driver_jnt_grp")
        c4 == CreateNode(c3, "transform", r.name \o "_driver_jnt_grp")
        c5 == SetParent(c4, r.driverJoints[2], driverGrp)
        c6 == SetParent(c5, r.driverJoints[1], driverGrp)
        c7 == SetParent(c6, driverGrp, r.name \o "_rig")
    IN  <<c7, made>>

\* Ribbon.skin_to_drivers(): <<context, skinPercent calls>>
SkinToDriversDo(c, r) ==
    LET crv == r.lenCurves[1]
        c1 == SkinCluster(SkinCluster(c, r.ribbon), crv)
        made == IF Failed(c1) THEN <<>> ELSE SegLoop(r, 0)
        c2 == SetAttr(c1, Plug(r.ribbon, "inheritsTransform"), RatZero)
        c3 == SetAttr(c2, Plug(crv, "inheritsTransform"), RatZero)
    IN  <<c3, made>>

-----------------------------------------------------------------------------
(* Actions of the ribbon rig *)

Names == {"arm"}
Axes == {"X", "Y", "Z"}

\* the outcome of a call: ret is the list returned by set_rivets or the one
\* name returned by a mk_ method called on its own (empty for the other
\* calls), arg the integer argument of set_rivets (0 for the other calls)
Outcome(op, c, ret, arg) ==
    [op |-> op, error |-> c.err, warning |-> c.warn, ret |-> ret, arg |-> arg]

Done(op, c) == Outcome(op, c, <<>>, 0)

Commit(c) ==
    /\ nodes' = c.nodes
    /\ conns' = c.conns
    /\ parents' = c.parents
    /\ attrs' = c.attrs

\* r = Ribbon(name, jointNum, driverJointNum, primaryAxis); when the
\* constructor raises, no instance is bound
RibbonInit ==
    \E name \in Names, jointNum \in 0..MaxJointNum, driverJointNum \in 0..MaxDriverJointNum,
       primaryAxis \in Axes, setAttrFails \in BOOLEAN :
        /\ rib.status = "none"
        /\ ~ObjExists(Ctx, name \o "_prxy" \o GRP)
        /\ LET res == RibbonNew(Ctx, name, jointNum, driverJointNum, primaryAxis, setAttrFails)
           IN  /\ Commit(res[1])
               /\ rib' = IF Failed(res[1]) THEN [res[2] EXCEPT !.status = "raised"]
                         ELSE res[2]
               /\ last' = Done("Ribbon", res[1])
        /\ skinCalls' = <<>>
        /\ UNCHANGED <<selection, instVars, numCalls>>

RibbonCall(op, res) ==
    /\ Commit(res[1])
    /\ rib' = res[2]
    /\ last' = Done(op, res[1])
    /\ UNCHANGED <<selection, instVars, skinCalls, numCalls>>

MkRibbon ==
    /\ rib.status = "built"
    /\ rib.ribbon = ""
    /\ RibbonCall("mk_ribbon", MkRibbonDo(Ctx, rib))

MkLenCrv ==
    /\ rib.status = "built"
    /\ rib.ribbon # ""
    /\ rib.lenCurves = <<>>
    /\ RibbonCall("mk_len_crv", MkLenCrvDo(Ctx, rib))

MkDriverJoints ==
    /\ rib.status = "built"
    /\ rib.driverJoints = <<>>
    /\ RibbonCall("mk_driver_joints", MkDriverJointsDo(Ctx, rib))

SkinCall(op, res) ==
    /\ Commit(res[1])
    /\ skinCalls' = res[2]
    /\ last' = Done(op, res[1])
    /\ UNCHANGED <<selection, instVars, rib, numCalls>>

SkinDuoDrivers ==
    /\ rib.status = "built"
    /\ rib.ribbon # "" /\ rib.lenCurves # <<>> /\ Len(rib.driverJoints) >= 2
    /\ SkinCall("skin_duo_drivers", SkinDuoDriversDo(Ctx, rib))

SkinToDrivers ==
    /\ rib.status = "built"
    /\ rib.ribbon # "" /\ rib.lenCurves # <<>>
    /\ Len(rib.driverJoints) = rib.driverJointNum
    /\ SkinCall("skin_to_drivers", SkinToDriversDo(Ctx, rib))

NextRibbon ==
    \/ RibbonInit
    \/ MkRibbon
    \/ MkLenCrv
    \/ MkDriverJoints
    \/ SkinDuoDrivers
    \/ SkinToDrivers



-----------------------------------------------------------------------------
(* Matrix (matrixconstrainttools.py) *)

InSeq(x, s) == \E k \in 1..Len(s) : s[k] = x

\* mutant: one selected object is accepted
SelectionRejectedBelowOne(objs, drvn) == ~(Len(objs) >= 1) /\ Len(drvn) = 0

\* the check of get_driver_driven that raises
SelectionRejected(objs, drvn) == ~(Len(objs) >= 2) /\ Len(drvn) = 0

\* mutant: the object is not looked up in the driven list
GddStepNoDrivenChk(c, objs, i) ==
    LET obj == objs[i]
    IN  IF i = Len(objs) /\ Len(c.driven) = 0
        THEN [c EXCEPT !.driven = Append(@, obj)]
        ELSE IF ~InSeq(obj, c.drivers)
        THEN [c EXCEPT !.drivers = Append(@, obj)]
        ELSE c

\* one iteration of the loop of get_driver_driven, on the i-th selected object
GddStep(c, objs, i) ==
    LET obj == objs[i]
    IN  IF i = Len(objs) /\ Len(c.driven) = 0
        THEN [c EXCEPT !.driven = Append(@, obj)]
        ELSE IF ~InSeq(obj, c.drivers) /\ ~InSeq(obj, c.driven)
        THEN [c EXCEPT !.drivers = Append(@, obj)]
        ELSE c

RECURSIVE GddLoop(_, _, _)
GddLoop(c, objs, i) ==
    IF i > Len(objs) THEN c ELSE GddLoop(GddStep(c, objs, i), objs, i + 1)

\* Matrix.get_driver_driven(), objs = mc.ls(sl=True)
GetDriverDrivenDo(c, objs) ==
    IF Failed(c) THEN c
    ELSE IF SelectionRejected(objs, c.driven)
    THEN Error(c, "Please select your driver objects and a driven object")
    ELSE GddLoop(c, objs, 1)

\* mc.objExists(attribute)
AttrExists(c, plug) == \E a \in c.attrs : a.plug = plug

\* mc.addAttr(node, ln=name, at="matrix")
AddAttr(c, plug) ==
    IF Failed(c) THEN c
    ELSE IF ~ObjExists(c, plug.node) THEN Error(c, "No object matches name")
    ELSE [c EXCEPT !.attrs = @ \cup {[plug |-> plug, val |-> RatZero]}]

\* iterations i .. of the loop of Matrix.set_offset over self.drivers; the value
\* of the offset matrix is not modelled
RECURSIVE SetOffsetLoop(_, _)
SetOffsetLoop(c, i) ==
    IF Failed(c) \/ i > Len(c.drivers) THEN c
    ELSE
      LET driver == c.drivers[i]
          grp == c.driven[1] \o GRP
          offsetAttr == Plug(grp, driver \o "Offset")
          multM == driver \o "_multM"
          c1 == IF ~AttrExists(c, offsetAttr) THEN AddAttr(c, offsetAttr) ELSE c
          c2 == SetAttr(c1, offsetAttr, RatZero)
          c3 == IF Failed(c2) \/ ObjExists(c2, multM) THEN c2
                ELSE LET d1 == CreateNode(c2, "multMatrix", multM)
                         d2 == ConnectAttr(d1, offsetAttr, Plug(multM, "matrixIn[0]"), FALSE)
                         d3 == ConnectAttr(d2, Plug(driver, WM),
                                           Plug(multM, "matrixIn[1]"), FALSE)
                     IN  ConnectAttr(d3, Plug(grp, "worldInverseMatrix"),
                                     Plug(multM, "matrixIn[2]"), FALSE)
      IN  SetOffsetLoop(c3, i + 1)

\* mutant: the node is created without looking for its name
MkDecompositionUnchecked(c, obj) == CreateNode(c, "decomposeMatrix", obj \o "_decM")

\* Matrix.mk_decomposition(obj): the context; the node is named obj_decM
MkDecomposition(c, obj) ==
    IF ~ObjExists(c, obj \o "_decM") THEN CreateNode(c, "decomposeMatrix", obj \o "_decM")
    ELSE c

-----------------------------------------------------------------------------
(* Constraint *)

\* the output of a driver that feeds the constraint
DOut(c, mtrxOffset, driver) ==
    IF mtrxOffset THEN Plug(driver \o "_multM", "matrixSum") ELSE Plug(driver, WM)

\* the driver loop of mk_blend and of mk_switch: driver i feeds input i - 1 of the node
RECURSIVE ConnDriversLoop(_, _, _, _, _)
ConnDriversLoop(c, mtrxOffset, node, isBlend, i) ==
    IF Failed(c) \/ i > Len(c.drivers) THEN c
    ELSE
      LET dst == IF isBlend THEN Plug(node, "wtMatrix[" \o ToString(i - 1) \o "].matrixIn")
                 ELSE Plug(node, "input[" \o ToString(i - 1) \o "]")
      IN  ConnDriversLoop(ConnectAttr(c, DOut(c, mtrxOffset, c.drivers[i]), dst, TRUE),
                          mtrxOffset, node, isBlend, i + 1)

\* Constraint.mk_blend(decMtrx)
MkBlend(c, mtrxOffset, decMtrx) ==
    LET blend == c.driven[1] \o "_blend"
    IN  IF Failed(c) \/ ObjExists(c, blend) THEN c
        ELSE LET c1 == CreateNode(c, "wtAddMatrix", blend)
                 c2 == ConnDriversLoop(c1, mtrxOffset, blend, TRUE, 1)
             IN  ConnectAttr(c2, Plug(blend, "matrixSum"), Plug(decMtrx, MTRXIN), TRUE)

\* Constraint.mk_switch(decMtrx)
MkSwitch(c, mtrxOffset, decMtrx) ==
    LET switch == c.driven[1] \o "_switch"
    IN  IF Failed(c) \/ ObjExists(c, switch) THEN c
        ELSE LET c1 == CreateNode(c, "choice", switch)
                 c2 == ConnDriversLoop(c1, mtrxOffset, switch, FALSE, 1)
             IN  ConnectAttr(c2, Plug(switch, OUT), Plug(decMtrx, MTRXIN), TRUE)

\* iterations i .. of the attribute loop of Constraint.set_constraint:
\* <<context, stopped by the warning>>
RECURSIVE AttrLoop(_, _, _, _)
AttrLoop(c, dec, attrList, i) ==
    IF Failed(c) \/ i > Len(attrList) THEN <<c, FALSE>>
    ELSE
      LET attr == attrList[i]
          drvn == c.driven[1]
          q2e == NewName(c, drvn \o "_q2e")
          c1 == IF attr = ROT
                THEN LET d1 == CreateNode(c, "quatToEuler", drvn \o "_q2e")
                         d2 == SetAttr(d1, Plug(q2e, "inputRotateOrder"), RatZero)
                     IN  ConnectAttr(d2, Plug(dec, "outputQuat"), Plug(q2e, "inputQuat"), FALSE)
                ELSE c
          mtrxAttr == IF attr = POS THEN Plug(dec, "outputTranslate")
                      ELSE IF attr = ROT THEN Plug(q2e, "outputRotate")
                      ELSE Plug(dec, "outputScale")
          drivenAttr == IF attr = POS THEN Plug(drvn, POS_ATTR)
                        ELSE IF attr = ROT THEN Plug(drvn, ROT_ATTR)
                        ELSE Plug(drvn, SCL_ATTR)
      IN  IF Failed(c1) THEN <<c1, FALSE>>
          ELSE IF ~IsDestination(c1, drivenAttr)
          THEN AttrLoop(ConnectAttr(c1, mtrxAttr, drivenAttr, FALSE), dec, attrList, i + 1)
          ELSE <<Warning(c1, "is already receiving an incoming connection."), TRUE>>

\* Constraint.set_constraint(mtrxType, attrs), objs = mc.ls(sl=True):
\* <<context, returned node name>>, "None" when nothing is returned
SetConstraintDo(c, mtrxOffset, objs, mtrxType, attrList) ==
    LET c1 == GetDriverDrivenDo(c, objs)
    IN  IF Failed(c1) THEN <<c1, "None">>
        ELSE
          LET drvn == c1.driven[1]
              dec == drvn \o "_decM"
              c2 == MkDecomposition(c1, drvn)
              c3 == IF mtrxOffset
                    THEN SetOffsetLoop(IF ParentOf(c2, drvn) # drvn \o GRP
                                       THEN MkParentGrp(c2, drvn) ELSE c2, 1)
                    ELSE c2
              many == Len(c1.drivers) > 1
              addMtrx == IF mtrxType = "switch" THEN drvn \o "_switch" ELSE drvn \o "_blend"
              c4 == IF many
                    THEN IF mtrxType = "switch" THEN MkSwitch(c3, mtrxOffset, dec)
                         ELSE MkBlend(c3, mtrxOffset, dec)
                    ELSE ConnectAttr(c3, DOut(c3, mtrxOffset, c1.drivers[1]),
                                     Plug(dec, MTRXIN), FALSE)
              lp == AttrLoop(c4, dec, attrList, 1)
          IN  <<lp[1], IF ~Failed(lp[1]) /\ ~lp[2] /\ many THEN addMtrx ELSE "None">>

\* the loop of set_avg_blend that feeds the weight to every driver's weightIn
RECURSIVE WeightLoop(_, _, _, _)
WeightLoop(c, val, blender, i) ==
    IF Failed(c) \/ i > Len(c.drivers) THEN c
    ELSE WeightLoop(ConnectAttr(c, Plug(val, OUT),
                                Plug(blender, "wtMatrix[" \o ToString(i - 1) \o "].weightIn"),
                                FALSE),
                    val, blender, i + 1)

\* Constraint.set_avg_blend(blender)
SetAvgBlend(c, blender) ==
    IF Failed(c) \/ ~(Len(c.drivers) > 1) THEN c
    ELSE
      LET val == c.driven[1] \o "_wtVal"
      IN  IF ObjExists(c, val) THEN c
          ELSE LET c1 == CreateNode(c, "multDoubleLinear", val)
                   c2 == SetAttr(c1, Plug(val, "input1"), Rat(1, Len(c.drivers)))
                   c3 == SetAttr(c2, Plug(val, "input2"), RatOne)
               IN  WeightLoop(c3, val, blender, 1)

\* Constraint.parent(), point() and orient(): set_constraint, then set_avg_blend
ConstrainDo(c, mtrxOffset, objs, attrList) ==
    LET res == SetConstraintDo(c, mtrxOffset, objs, "blend", attrList)
    IN  SetAvgBlend(res[1], res[2])

\* Constraint.scale()
ScaleDo(c, mtrxOffset, objs) ==
    IF Len(c.drivers) >= 2
    THEN Warning(c, "driven objects can only be scale constrained to one driver")
    ELSE ConstrainDo(c, mtrxOffset, objs, <<SCL>>)

-----------------------------------------------------------------------------
(* BlendColor *)

\* mutant: three drivers are accepted
TooManyDriversAboveThree(drvs) == Len(drvs) > 3

\* the check of BlendColor.set_constraint on the number of drivers
TooManyDrivers(drvs) == Len(drvs) > 2

\* bc[len(bc) - 6] for bc = driven + attr + "_bc": the sixth character from
\* the end of "_pos_bc", "_rot_bc" and "_scale_bc"
SixthFromEnd(attr) ==
    IF attr = POS THEN "p" ELSE IF attr = ROT THEN "r" ELSE "a"

\* BlendColor.mk_bc(attr)
MkBc(c, attr) ==
    LET bc == c.driven[1] \o attr \o BC
        c1 == IF ~ObjExists(c, bc) THEN CreateNode(c, "blendColors", bc) ELSE c
        c2 == SetAttr(c1, Plug(bc, "color1"), RatZero)
    IN  SetAttr(c2, Plug(bc, "color2"), RatZero)

\* the decomposeMatrix loop of BlendColor.set_constraint over self.drivers
RECURSIVE DecLoop(_, _)
DecLoop(c, i) ==
    IF Failed(c) \/ i > Len(c.drivers) THEN c
    ELSE
      LET driver == c.drivers[i]
          dec == driver \o "_decM"
          c1 == IF ~ObjExists(c, dec)
                THEN ConnectAttr(MkDecomposition(c, driver), Plug(driver, WM),
                                 Plug(dec, MTRXIN), FALSE)
                ELSE c
      IN  DecLoop(c1, i + 1)

\* the blendColors loop of BlendColor.set_constraint over attrs
RECURSIVE BcLoop(_, _, _)
BcLoop(c, attrList, i) ==
    IF Failed(c) \/ i > Len(attrList) THEN c
    ELSE BcLoop(IF ~ObjExists(c, c.driven[1] \o attrList[i] \o BC)
                THEN MkBc(c, attrList[i]) ELSE c,
                attrList, i + 1)

\* BlendColor.conn_matrix(mtrx, bc), mtrx the decomposeMatrix nodes of the drivers
RECURSIVE ConnMatrix(_, _, _)
ConnMatrix(c, attr, i) ==
    IF Failed(c) \/ i > Len(c.drivers) THEN c
    ELSE
      LET char == SixthFromEnd(attr)
          bc == c.driven[1] \o attr \o BC
          m == c.drivers[i] \o "_decM"
          mAttr == IF char = "p" THEN "outputTranslate"
                   ELSE IF char = "r" THEN "outputRotate" ELSE "outputScale"
          c1 == IF char \notin {"p", "r", "s"}
                THEN Error(c, "UnboundLocalError: mAttr")
                ELSE ConnectAttr(c, Plug(m, mAttr), Plug(bc, "color" \o ToString(i)), FALSE)
      IN  ConnMatrix(c1, attr, i + 1)

\* BlendColor.conn_bc(bc)
ConnBc(c, attr) ==
    LET char == SixthFromEnd(attr)
        bc == c.driven[1] \o attr \o BC
        dAttr == IF char = "p" THEN POS_ATTR ELSE IF char = "r" THEN ROT_ATTR ELSE SCL_ATTR
    IN  IF Failed(c) THEN c
        ELSE IF char \notin {"p", "r", "s"} THEN Error(c, "UnboundLocalError: dAttr")
        ELSE ConnectAttr(c, Plug(bc, OUT), Plug(c.driven[1], dAttr), FALSE)

\* the last loop of BlendColor.set_constraint, over bcList
RECURSIVE ConnLoop(_, _, _)
ConnLoop(c, attrList, i) ==
    IF Failed(c) \/ i > Len(attrList) THEN c
    ELSE ConnLoop(ConnBc(ConnMatrix(c, attrList[i], 1), attrList[i]), attrList, i + 1)

\* BlendColor.set_constraint(attrs), objs = mc.ls(sl=True)
BcSetConstraintDo(c, objs, attrList) ==
    LET c1 == GetDriverDrivenDo(c, objs)
    IN  IF Failed(c1) THEN c1
        ELSE IF TooManyDrivers(c1.drivers)
        THEN Warning(c1, "blendColor constraints can't have mroe than two drivers")
        ELSE ConnLoop(BcLoop(DecLoop(c1, 1), attrList, 1), attrList, 1)

-----------------------------------------------------------------------------
(* Rivet *)

\* mc.listRelatives(obj, s=True): the shape of obj is the node obj + "Shape",
\* "" for None
ShapeOf(c, obj) == IF ObjExists(c, obj \o "Shape") THEN obj \o "Shape" ELSE ""

\* mc.objectType(name)
ObjectType(c, name) == (CHOOSE n \in c.nodes : n.name = name).type

\* mutant: only an empty selection is refused
DriverRejectedWhenEmpty(objs) == Len(objs) = 0

\* the check of Rivet.get_driver that returns with a warning
DriverRejected(objs) == ~(Len(objs) = 1)

\* Rivet.get_driver(), objs = mc.ls(sl=True)
GetDriverDo(c, objs) ==
    IF Failed(c) THEN c
    ELSE IF DriverRejected(objs)
    THEN IF Len(objs) = 0 THEN Warning(c, "No objects selected")
         ELSE Warning(c, "Too many objects selected")
    ELSE
      LET obj == objs[1]
          c1 == [c EXCEPT !.drivers = IF Len(@) = 0 THEN Append(@, obj)
                                      ELSE [@ EXCEPT ![1] = obj]]
      IN  IF ParentOf(c1, obj) = "" \/ ParentOf(c1, obj) # obj \o GRP
          THEN MkParentGrp(c1, obj) ELSE c1

\* Rivet.get_pt_surface(riv, u, v): <<context, returned name>>, "None" when the
\* warning is returned
GetPtSurface(c, riv, u, v) ==
    LET ptSurf == riv \o "_ptSurf"
        shape == ShapeOf(c, c.drivers[1])
    IN  IF Failed(c) THEN <<c, "None">>
        ELSE IF shape = ""
        THEN <<Error(c, "TypeError: 'NoneType' object is not subscriptable"), "None">>
        ELSE IF ~(ObjectType(c, shape) = "nurbsSurface")
        THEN <<Warning(c, "Driver object needs to be a nurbsSurface"), "None">>
        ELSE
          LET c1 == IF ~ObjExists(c, ptSurf)
                    THEN CreateNode(c, "pointOnSurfaceInfo", ptSurf) ELSE c
              c2 == SetAttr(c1, Plug(ptSurf, "parameterU"), u)
              c3 == SetAttr(c2, Plug(ptSurf, "parameterV"), v)
          IN  <<ConnectAttr(c3, Plug(shape, "worldSpace[0]"),
                            Plug(ptSurf, "inputSurface"), FALSE), ptSurf>>

\* the connection that step k = 3 * i + j of the two loops of mk_4x4_mtrx makes:
\* ptSurf + attrs[i] + vector j to mtrx.in<i><j>; the vector is lower case for
\* the two tangents
MtrxConn(ptSurf, mtrx, k) ==
    LET i == k \div 3
        j == k % 3
        attr == <<NML, TANU, TANV, ".position">>[i + 1]
        v == IF attr = TANU \/ attr = TANV THEN <<"x", "y", "z">>[j + 1]
             ELSE VECTORS[j + 1]
    IN  [src |-> Plug(ptSurf, attr \o v),
         dst |-> Plug(mtrx, "in" \o ToString(i) \o ToString(j))]

\* the twelve unforced mc.connectAttr calls of mk_4x4_mtrx, in order: they stop
\* at the first input of mtrx that already has a connection (the twelve
\* inputs are distinct)
MtrxLoop(c, ptSurf, mtrx) ==
    LET taken == {k \in 0..11 : IsDestination(c, MtrxConn(ptSurf, mtrx, k).dst)}
        stop == IF taken = {} THEN 12 ELSE CHOOSE k \in taken : \A l \in taken : k <= l
        made == {MtrxConn(ptSurf, mtrx, k) : k \in 0..(stop - 1)}
    IN  IF Failed(c) THEN c
        ELSE IF ~ObjExists(c, ptSurf) \/ ~ObjExists(c, mtrx)
        THEN Error(c, "No object matches name")
        ELSE IF stop < 12
        THEN Error([c EXCEPT !.conns = @ \cup made], "already has an incoming connection")
        ELSE [c EXCEPT !.conns = @ \cup made]

\* Rivet.mk_4x4_mtrx(ptSurf) for the pointOnSurfaceInfo node of riv; the name
\* riv_ptSurf becomes riv_mtrx (no rivet name contains "ptSurf")
Mk4x4Mtrx(c, riv, ptSurf) ==
    LET mtrx == riv \o "_mtrx"
    IN  IF Failed(c) THEN c
        ELSE IF ptSurf = "None"
        THEN Error(c, "AttributeError: 'NoneType' object has no attribute 'replace'")
        ELSE MtrxLoop(IF ~ObjExists(c, mtrx) THEN CreateNode(c, "fourByFourMatrix", mtrx)
                      ELSE c,
                      ptSurf, mtrx)

\* what a method returns with the context it leaves: nothing when it raised
Returned(c, name) == <<c, IF Failed(c) THEN "None" ELSE name>>

\* the four connections that end mk_rivet, c the context after
\* mk_decomposition(riv)
MkRivetConnect(c, riv, driverDecM) ==
    LET mtrx == riv \o "_mtrx"
        decM == riv \o "_decM"
    IN  ConnectAttr(
          ConnectAttr(
            ConnectAttr(
              ConnectAttr(c, Plug(mtrx, OUT), Plug(decM, MTRXIN), FALSE),
              Plug(decM, "outputTranslate"), Plug(riv, POS_ATTR), FALSE),
            Plug(decM, "outputRotate"), Plug(riv, ROT_ATTR), FALSE),
          Plug(driverDecM, "outputScale"), Plug(riv, SCL_ATTR), FALSE)

\* mk_rivet from mk_4x4_mtrx on, ps the result of get_pt_surface
MkRivetMatrix(ps, riv, driverDecM) ==
    Returned(MkRivetConnect(MkDecomposition(Mk4x4Mtrx(ps[1], riv, ps[2]), riv),
                            riv, driverDecM),
             riv)

\* mk_rivet from mc.spaceLocator on, c the context after the driver's
\* decomposeMatrix is made and fed
MkRivetLocator(c, name, driverDecM, u, v) ==
    LET riv == NewName(c, name)
    IN  MkRivetMatrix(GetPtSurface(SetAttr(CreateNode(c, "locator", name),
                                           Plug(riv, "inheritsTransform"), RatZero),
                                   riv, u, v),
                      riv, driverDecM)

\* mk_rivet from mk_decomposition(self.drivers[0]) on
MkRivetDriver(c, name, u, v) ==
    IF Len(c.drivers) = 0
    THEN <<Error(c, "IndexError: list index out of range"), "None">>
    ELSE
      LET driver == c.drivers[1]
          driverDecM == driver \o "_decM"
          c2 == MkDecomposition(c, driver)
      IN  MkRivetLocator(IF ~IsDestination(c2, Plug(driverDecM, MTRXIN))
                         THEN ConnectAttr(c2, Plug(driver, WM), Plug(driverDecM, MTRXIN), FALSE)
                         ELSE c2,
                         name, driverDecM, u, v)

\* Rivet.mk_rivet(name, u, v), objs = mc.ls(sl=True): <<context, returned name>>
MkRivetDo(c, objs, name, u, v) ==
    IF Failed(c) THEN <<c, "None">>
    ELSE IF ObjExists(c, name) THEN <<c, name>>
    ELSE MkRivetDriver(IF Len(c.drivers) = 0 THEN GetDriverDo(c, objs) ELSE c, name, u, v)

\* mutant: the two loop variables of set_rivets are taken for one another
UValOfRivet(rivet, rivets) ==
    IF rivet = 1 THEN RatZero
    ELSE IF rivet = rivets THEN RatOne
    ELSE Rat(rivet, rivets - 1)

\* the u value set_rivets gives rivet number `rivet` (1-based) of `rivets`;
\* the loop's i is rivet - 1
UVal(rivet, rivets) ==
    IF rivet = 1 THEN RatZero
    ELSE IF rivet = rivets THEN RatOne
    ELSE Rat(rivet - 1, rivets - 1)

\* the end of one iteration of the loop of set_rivets: mc.parent(riv, rivGrp)
\* and rivList.append(riv), res the result of mk_rivet
RivStep(res, rivGrp, rivList) ==
    LET c1 == SetParent(res[1], res[2], rivGrp)
    IN  <<c1, IF Failed(c1) THEN rivList ELSE Append(rivList, res[2])>>

\* iterations rivet .. rivets of the loop of set_rivets, st = <<context, rivList>>
RECURSIVE RivLoop(_, _, _, _, _)
RivLoop(st, objs, rivets, rivGrp, rivet) ==
    IF Failed(st[1]) \/ rivet > rivets THEN st
    ELSE RivLoop(RivStep(MkRivetDo(st[1], objs, st[1].drivers[1] \o RIV \o ZFill2(rivet),
                                   UVal(rivet, rivets), Rat(1, 2)),
                         rivGrp, st[2]),
                 objs, rivets, rivGrp, rivet + 1)

\* the end of set_rivets: mc.parent(rivGrp, <driver>_grp) and the return, lp
\* the result of the loop
SetRivetsEnd(lp, rivGrp, grp) ==
    LET c3 == SetParent(lp[1], rivGrp, grp)
    IN  <<c3, IF Failed(c3) THEN <<>> ELSE lp[2]>>

\* set_rivets after get_driver
SetRivetsGrp(c, objs, rivets) ==
    IF Len(c.drivers) = 0
    THEN <<Error(c, "IndexError: list index out of range"), <<>>>>
    ELSE
      LET driver == c.drivers[1]
          rivGrp == NewName(c, driver \o RIV \o GRP)
      IN  SetRivetsEnd(RivLoop(<<CreateNode(c, "transform", driver \o RIV \o GRP), <<>>>>,
                               objs, rivets, rivGrp, 1),
                       rivGrp, driver \o GRP)

\* Rivet.set_rivets(rivets), objs = mc.ls(sl=True): <<context, returned list>>
SetRivetsDo(c, objs, rivets) == SetRivetsGrp(GetDriverDo(c, objs), objs, rivets)

-----------------------------------------------------------------------------
(* Actions of the constraint tools.  The user selects objects and calls a      *)
(* method of the current instance; the selection is read by the method.     *)

\* the transforms of the scene, in the order the user picks them
ObjList == <<"a", "b", "c", "d">>
Objs == {ObjList[i] : i \in 1..Len(ObjList)}

Min(S) == CHOOSE x \in S : \A y \in S : x <= y

RECURSIVE Picked(_)
Picked(S) == IF S = {} THEN <<>> ELSE <<ObjList[Min(S)]>> \o Picked(S \ {Min(S)})

\* the selections the user makes: up to MaxSel distinct objects
Selections ==
    {Picked(S) : S \in {T \in SUBSET (1..Len(ObjList)) : Cardinality(T) <= MaxSel}}

CommitInst(c) ==
    /\ Commit(c)
    /\ drivers' = c.drivers
    /\ driven' = c.driven

\* a method call that returns ret and was given the integer argument arg
CallRet(op, sel, c, ret, arg) ==
    /\ numCalls < MaxCalls
    /\ numCalls' = numCalls + 1
    /\ selection' = sel
    /\ CommitInst(c)
    /\ last' = Outcome(op, c, ret, arg)
    /\ UNCHANGED <<cls, mo, ribVars>>

Call(op, sel, c) == CallRet(op, sel, c, <<>>, 0)

\* var = Constraint(mo)
NewConstraint ==
    \E m \in BOOLEAN :
        /\ cls' = "Constraint"
        /\ mo' = m
        /\ drivers' = <<>>
        /\ driven' = <<>>
        /\ last' = Done("Constraint", Ctx)
        /\ numCalls < MaxCalls
        /\ numCalls' = numCalls + 1
        /\ UNCHANGED <<sceneVars, ribVars>>

\* var = BlendColor()
NewBlendColor ==
    /\ cls' = "BlendColor"
    /\ mo' = FALSE
    /\ drivers' = <<>>
    /\ driven' = <<>>
    /\ last' = Done("BlendColor", Ctx)
    /\ numCalls < MaxCalls
    /\ numCalls' = numCalls + 1
    /\ UNCHANGED <<sceneVars, ribVars>>

GetDriverDriven ==
    \E sel \in Selections :
        /\ cls # "none"
        /\ Call("get_driver_driven", sel, GetDriverDrivenDo(Ctx, sel))

ConstraintParent ==
    \E sel \in Selections :
        /\ cls = "Constraint"
        /\ Call("Constraint.parent", sel, ConstrainDo(Ctx, mo, sel, <<POS, ROT>>))

ConstraintPoint ==
    \E sel \in Selections :
        /\ cls = "Constraint"
        /\ Call("Constraint.point", sel, ConstrainDo(Ctx, mo, sel, <<POS>>))

ConstraintOrient ==
    \E sel \in Selections :
        /\ cls = "Constraint"
        /\ Call("Constraint.orient", sel, ConstrainDo(Ctx, mo, sel, <<ROT>>))

ConstraintScale ==
    \E sel \in Selections :
        /\ cls = "Constraint"
        /\ Call("Constraint.scale", sel, ScaleDo(Ctx, mo, sel))

BlendColorParent ==
    \E sel \in Selections :
        /\ cls = "BlendColor"
        /\ Call("BlendColor.parent", sel, BcSetConstraintDo(Ctx, sel, <<POS, ROT>>))

BlendColorPoint ==
    \E sel \in Selections :
        /\ cls = "BlendColor"
        /\ Call("BlendColor.point", sel, BcSetConstraintDo(Ctx, sel, <<POS>>))

BlendColorOrient ==
    \E sel \in Selections :
        /\ cls = "BlendColor"
        /\ Call("BlendColor.orient", sel, BcSetConstraintDo(Ctx, sel, <<ROT>>))

BlendColorScale ==
    \E sel \in Selections :
        /\ cls = "BlendColor"
        /\ Call("BlendColor.scale", sel, BcSetConstraintDo(Ctx, sel, <<SCL>>))

\* var = Rivet(mo)
NewRivet ==
    \E m \in BOOLEAN :
        /\ cls' = "Rivet"
        /\ mo' = m
        /\ drivers' = <<>>
        /\ driven' = <<>>
        /\ last' = Done("Rivet", Ctx)
        /\ numCalls < MaxCalls
        /\ numCalls' = numCalls + 1
        /\ UNCHANGED <<sceneVars, ribVars>>

\* the selections of a Rivet session: get_driver reads the number of selected
\* objects and the first of them
RivetSelections == {sel \in Selections : Len(sel) <= 1} \cup {<<"a", "b">>}

RivetGetDriver ==
    \E sel \in RivetSelections :
        /\ cls = "Rivet"
        /\ Call("Rivet.get_driver", sel, GetDriverDo(Ctx, sel))

\* the names and surface parameters the user gives mk_rivet
RivetNames == {"a_riv02", "pin"}
UValues == {Rat(1, 4)}
VValues == {Rat(3, 4)}

RivetMkRivet ==
    \E sel \in RivetSelections, name \in RivetNames, u \in UValues, v \in VValues :
        /\ cls = "Rivet"
        /\ Call("Rivet.mk_rivet", sel, MkRivetDo(Ctx, sel, name, u, v)[1])

RivetSetRivets ==
    \E sel \in RivetSelections, rivets \in 0..MaxRivets :
        /\ cls = "Rivet"
        /\ LET res == SetRivetsDo(Ctx, sel, rivets)
           IN  CallRet("Rivet.set_rivets", sel, res[1], res[2], rivets)

\* the objects with a nurbsSurface shape and those with a mesh shape; the
\* other objects are groups without a shape
Surfaces == {"a", "b"}
Meshes == {"c"}

Init ==
    /\ selection = <<>>
    /\ nodes = {[name |-> o, type |-> "transform"] : o \in Objs}
               \cup {[name |-> o \o "Shape", type |-> "nurbsSurface"] : o \in Surfaces}
               \cup {[name |-> o \o "Shape", type |-> "mesh"] : o \in Meshes}
    /\ conns = {}
    /\ parents = {}
    /\ attrs = {}
    /\ cls = "none"
    /\ mo = FALSE
    /\ drivers = <<>>
    /\ driven = <<>>
    /\ rib = NoRibbon
    /\ skinCalls = <<>>
    /\ last = [op |-> "", error |-> NoError, warning |-> NoWarning, ret |-> <<>>, arg |-> 0]
    /\ numCalls = 0

\* a session with the Constraint class
Next ==
    \/ NewConstraint
    \/ GetDriverDriven
    \/ ConstraintParent
    \/ ConstraintPoint
    \/ ConstraintOrient
    \/ ConstraintScale

Spec == Init /\ [][Next]_vars

\* a session with the BlendColor class
NextBlendColor ==
    \/ NewBlendColor
    \/ GetDriverDriven
    \/ BlendColorParent
    \/ BlendColorPoint
    \/ BlendColorOrient
    \/ BlendColorScale

SpecBlendColor == Init /\ [][NextBlendColor]_vars

\* a method of the tools called on its own, as the module header lists them;
\* the selection stays as it is
HelperCall(op, c, name) ==
    /\ numCalls < MaxHelperCalls
    /\ numCalls' = numCalls + 1
    /\ CommitInst(c)
    /\ last' = Outcome(op, c, IF Failed(c) \/ name = "None" THEN <<>> ELSE <<name>>, 0)
    /\ UNCHANGED <<selection, cls, mo, ribVars>>

\* self.driven[0] raises when no driven object was set
DrivenOr(c, res) ==
    IF c.driven = <<>> THEN Error(c, "IndexError: list index out of range") ELSE res

\* var.mk_decomposition(obj)
CallMkDecomposition ==
    \E obj \in Objs :
        /\ cls # "none"
        /\ HelperCall("mk_decomposition", MkDecomposition(Ctx, obj), obj \o "_decM")

\* var.mk_blend(decMtrx), decMtrx the decomposeMatrix name of the driven object
CallMkBlend ==
    /\ cls = "Constraint"
    /\ HelperCall("mk_blend", DrivenOr(Ctx, MkBlend(Ctx, mo, driven[1] \o "_decM")),
                  IF driven = <<>> THEN "None" ELSE driven[1] \o "_blend")

\* var.mk_switch(decMtrx)
CallMkSwitch ==
    /\ cls = "Constraint"
    /\ HelperCall("mk_switch", DrivenOr(Ctx, MkSwitch(Ctx, mo, driven[1] \o "_decM")),
                  IF driven = <<>> THEN "None" ELSE driven[1] \o "_switch")

\* var.set_avg_blend(blender), blender the blend or the switch node's name
CallSetAvgBlend ==
    \E suffix \in {"_blend", "_switch"} :
        /\ cls = "Constraint"
        /\ HelperCall("set_avg_blend",
                      IF Len(drivers) > 1 THEN SetAvgBlend(Ctx, driven[1] \o suffix) ELSE Ctx,
                      IF Len(drivers) > 1 THEN driven[1] \o "_wtVal" ELSE "None")

\* var.mk_bc(attr)
CallMkBc ==
    \E attr \in {POS, ROT, SCL} :
        /\ cls = "BlendColor"
        /\ HelperCall("mk_bc", DrivenOr(Ctx, MkBc(Ctx, attr)),
                      IF driven = <<>> THEN "None" ELSE driven[1] \o attr \o BC)

\* a session that calls the node-making methods one by one
NextNodes ==
    \/ NewConstraint
    \/ NewBlendColor
    \/ GetDriverDriven
    \/ CallMkDecomposition
    \/ CallMkBlend
    \/ CallMkSwitch
    \/ CallSetAvgBlend
    \/ CallMkBc

SpecNodes == Init /\ [][NextNodes]_vars

\* a session with the Rivet class
NextRivet ==
    \/ NewRivet
    \/ RivetGetDriver
    \/ RivetMkRivet
    \/ RivetSetRivets

SpecRivet == Init /\ [][NextRivet]_vars

\* a session that builds a ribbon rig
SpecRibbon == Init /\ [][NextRibbon]_vars

-----------------------------------------------------------------------------
(* Properties of the skin weights and of the Ribbon constructor *)

Calls == {skinCalls[k] : k \in 1..Len(skinCalls)}

\* C1: every CV row that skin_duo_drivers and skin_to_drivers assign gets a
\* base weight and a tip weight that sum to exactly 1.
C1_PartitionOfUnity ==
    \A call \in Calls : RatAdd(call.btwt, call.tpwt) = RatOne

\* a linear row of a segment after the first has been assigned by skin_to_drivers
C1_Witness ==
    \E call \in Calls :
        /\ call.fn = "skin_to_drivers" /\ call.seg >= 1
        /\ call.row >= 2 /\ call.row <= call.cvrows - 2
        /\ call.tpwt \notin {RatZero, RatOne}

\* C2: row 0 gets (base, tip) = (1, 0) and the last row (i = rows - 1) gets
\* (0, 1), in skin_duo_drivers and in every segment of skin_to_drivers.
C2_EndRowsPinned ==
    \A call \in Calls :
        /\ call.row = 0 => (call.btwt = RatOne /\ call.tpwt = RatZero)
        /\ call.row = call.cvrows - 1 => (call.btwt = RatZero /\ call.tpwt = RatOne)

\* the first and the last row of a three-row segment of skin_to_drivers have
\* been assigned
C2_Witness ==
    /\ \E call \in Calls : call.fn = "skin_to_drivers" /\ call.cvrows = 3 /\ call.row = 0
    /\ \E call \in Calls : call.fn = "skin_to_drivers" /\ call.cvrows = 3 /\ call.row = 2
                           /\ call.tpwt = RatOne

\* C3 as claimed: row 1 gets tip weight frac / 3 and base weight 1 - frac / 3,
\* and row rows - 2 gets base weight frac / 3 and tip weight 1 - frac / 3.
C3_AsClaimed ==
    \A call \in Calls :
        LET third == RatMul(Rat(1, 3), Rat(1, rib.spans))
        IN  /\ call.row = 1 =>
                (call.tpwt = third /\ call.btwt = RatSub(RatOne, third))
            /\ call.row = call.cvrows - 2 =>
                (call.btwt = third /\ call.tpwt = RatSub(RatOne, third))

\* C3 amended: in skin_duo_drivers and in the first segment of skin_to_drivers
\* row 1 gets tip weight .333 * frac and base weight 1 - .333 * frac; in
\* skin_duo_drivers and in the last segment of skin_to_drivers row rows - 2
\* gets base weight .333 * frac and tip weight 1 - .333 * frac.
C3_DampedEnds ==
    \A call \in Calls :
        LET damped == RatMul(Rat(333, 1000), Rat(1, rib.spans))
            first == call.fn = "skin_duo_drivers" \/ call.seg = 0
            final == call.fn = "skin_duo_drivers" \/ call.seg = rib.driverJointNum - 2
        IN  /\ (call.row = 1 /\ first) =>
                (call.tpwt = damped /\ call.btwt = RatSub(RatOne, damped))
            /\ (call.row = call.cvrows - 2 /\ final) =>
                (call.btwt = damped /\ call.tpwt = RatSub(RatOne, damped))

\* both damped rows have been assigned by skin_to_drivers with three drivers or more
C3_Witness ==
    /\ rib.driverJointNum >= 3
    /\ \E call \in Calls : call.fn = "skin_to_drivers" /\ call.seg = 0 /\ call.row = 1
    /\ \E call \in Calls : /\ call.fn = "skin_to_drivers"
                           /\ call.seg = rib.driverJointNum - 2
                           /\ call.row = call.cvrows - 2

\* C4: every interior row i (neither the first two nor the last two rows) gets
\* base weight 1 - (i - 1) * frac and tip weight (i - 1) * frac, frac = 1 / spans,
\* and both weights lie in [0, 1].
C4_InteriorLinear ==
    \A call \in Calls :
        (call.row >= 2 /\ call.row <= call.cvrows - 3) =>
            LET step == RatMul(RatInt(call.row - 1), Rat(1, rib.spans))
            IN  /\ call.tpwt = step
                /\ call.btwt = RatSub(RatOne, step)
                /\ RatLeq(RatZero, call.tpwt) /\ RatLeq(call.tpwt, RatOne)
                /\ RatLeq(RatZero, call.btwt) /\ RatLeq(call.btwt, RatOne)

\* interior rows have been assigned by skin_duo_drivers
C4_Witness ==
    \E call \in Calls :
        /\ call.fn = "skin_duo_drivers"
        /\ call.row >= 3 /\ call.row <= call.cvrows - 3

\* C5: within one driver pair the tip weight never decreases and the base
\* weight never increases as the row index grows.
C5_Monotonic ==
    \A c1 \in Calls, c2 \in Calls :
        (c1.fn = c2.fn /\ c1.geo = c2.geo /\ c1.seg = c2.seg /\ c1.row < c2.row) =>
            (RatLeq(c1.tpwt, c2.tpwt) /\ RatLeq(c2.btwt, c1.btwt))

\* a damped row and the linear row next to it have been assigned
C5_Witness ==
    \E c1 \in Calls, c2 \in Calls :
        /\ c1.fn = "skin_duo_drivers" /\ c2.fn = "skin_duo_drivers" /\ c1.geo = c2.geo
        /\ c1.row = 1 /\ c2.row = 2 /\ c2.row <= c2.cvrows - 3

ProxyNodes == {n \in nodes : n.type \in {"locator", "nurbsCurve", "clusterHandle"}
                              \/ n.name = rib.name \o "_prxy" \o GRP}

\* C10: the Ribbon constructor called with jointNum < 3 or driverJointNum < 2
\* raises "Rig needs a minimum of 2 drivers and 3 joints" and no proxy group,
\* locator or curve exists afterwards; called with valid arguments it creates
\* exactly driverJointNum proxies.
C10_ConstructorChecksArguments ==
    last.op = "Ribbon" =>
        IF rib.jointNum >= 3 /\ rib.driverJointNum >= 2
        THEN /\ last.error # "Rig needs a minimum of 2 drivers and 3 joints"
             /\ Len(rib.proxies) = rib.driverJointNum
             /\ Cardinality({rib.proxies[i] : i \in 1..Len(rib.proxies)}) = rib.driverJointNum
             /\ {n.name : n \in {m \in nodes : m.type = "locator"}}
                    = {rib.proxies[i] : i \in 1..Len(rib.proxies)}
        ELSE /\ last.error = "Rig needs a minimum of 2 drivers and 3 joints"
             /\ ProxyNodes = {}

\* the constructor has raised for enough drivers but too few joints
C10_Witness ==
    /\ last.op = "Ribbon"
    /\ rib.jointNum = 2 /\ rib.driverJointNum >= 2
    /\ last.error = "Rig needs a minimum of 2 drivers and 3 joints"

-----------------------------------------------------------------------------
(* Properties of the constraint tools *)

Elems(s) == {s[k] : k \in 1..Len(s)}

Constructors == {"Constraint", "BlendColor", "Ribbon"}

SelectionError == "Please select your driver objects and a driven object"
ScaleWarning == "driven objects can only be scale constrained to one driver"
BlendColorWarning == "blendColor constraints can't have mroe than two drivers"

\* C6: on a fresh instance, get_driver_driven with n >= 2 distinct objects
\* selected makes the last one the single driven object and the other n - 1
\* the drivers, in selection order; and at all times, also after further calls
\* with other selections, the driven object is not in drivers and drivers
\* holds no duplicates.
C6_DriverDriven ==
    /\ [](/\ Elems(driven) \cap Elems(drivers) = {}
          /\ Cardinality(Elems(drivers)) = Len(drivers)
          /\ Len(driven) <= 1)
    /\ [][(/\ last'.op \notin Constructors
           /\ drivers = <<>> /\ driven = <<>>
           /\ Len(selection') >= 2)
          => (/\ driven' = <<selection'[Len(selection')]>>
              /\ drivers' = SubSeq(selection', 1, Len(selection') - 1))]_vars

\* a further get_driver_driven call whose selection held the driven object has
\* added a driver
C6_Witness ==
    /\ last.op = "get_driver_driven"
    /\ numCalls = 3
    /\ Len(drivers) >= 2
    /\ driven # <<>> /\ InSeq(driven[1], selection)

C8_ScaleRefusesManyDrivers ==
    [][(last'.op = "Constraint.scale" /\ Len(selection') >= 3)
       => (last'.warning = ScaleWarning /\ nodes' = nodes /\ conns' = conns)]_vars

\* C9: BlendColor.parent/point/orient/scale with more than two drivers warns
\* and creates no decomposeMatrix node, no blendColors node and no connection.
C9_BlendColorRefusesManyDrivers ==
    [][(/\ last'.op \in {"BlendColor.parent", "BlendColor.point",
                         "BlendColor.orient", "BlendColor.scale"}
        /\ Len(drivers') > 2)
       => (/\ last'.warning = BlendColorWarning
           /\ last'.error = NoError
           /\ nodes' = nodes /\ conns' = conns /\ attrs' = attrs)]_vars

\* BlendColor.parent() has warned on a fresh instance with three drivers selected
C9_Witness ==
    /\ last.op = "BlendColor.parent"
    /\ last.warning = BlendColorWarning
    /\ numCalls = 2
    /\ Len(drivers) = 3

-----------------------------------------------------------------------------
(* Properties of the Rivet class *)

\* the value of a surface parameter of the pointOnSurfaceInfo node of rivet
\* riv after the call
PtSurfHolds(riv, attr, val) ==
    [plug |-> Plug(riv \o "_ptSurf", attr), val |-> val] \in attrs'

C12_OneDriverOnly ==
    [][last'.op = "Rivet.get_driver"
       => IF Len(selection') # 1
          THEN /\ last'.warning = IF Len(selection') = 0 THEN "No objects selected"
                                  ELSE "Too many objects selected"
               /\ drivers' = drivers
               /\ nodes' = nodes /\ parents' = parents
          ELSE LET obj == selection'[1]
                   grp == [name |-> obj \o GRP, type |-> "transform"]
                   under == [child |-> obj, parent |-> obj \o GRP]
               IN  /\ last'.warning = NoWarning /\ last'.error = NoError
                   /\ drivers' = <<obj>> \o Tail(drivers')
                   /\ Len(drivers') = IF drivers = <<>> THEN 1 ELSE Len(drivers)
                   /\ under \in parents'
                   /\ grp \in nodes'
                   /\ nodes' = IF under \in parents THEN nodes ELSE nodes \cup {grp}]_vars

\* get_driver was called on a and then on b: b took the place of a as
\* drivers[0], and both are under their groups
C12_Witness ==
    /\ last.op = "Rivet.get_driver"
    /\ selection = <<"b">>
    /\ drivers = <<"b">>
    /\ [child |-> "a", parent |-> "a_grp"] \in parents
    /\ [child |-> "b", parent |-> "b_grp"] \in parents

-----------------------------------------------------------------------------
(* Properties of the Constraint and BlendColor networks *)

\* the driven attributes that a method of Constraint hands to set_constraint
ConstrainedAttrs(op) ==
    IF op = "Constraint.parent" THEN {POS_ATTR, ROT_ATTR}
    ELSE IF op = "Constraint.point" THEN {POS_ATTR}
    ELSE IF op = "Constraint.orient" THEN {ROT_ATTR}
    ELSE IF op = "Constraint.scale" THEN {SCL_ATTR}
    ELSE {}

\* the sources of the connections into a plug
SourcesOf(cs, plug) == {k.src : k \in {x \in cs : x.dst = plug}}

AlreadyWarning == "is already receiving an incoming connection."

\* C13: when set_constraint runs (through parent, point, orient or scale) and
\* an attribute of the driven object that it is to constrain already
\* receives a connection, the call issues the "already receiving an incoming
\* connection" warning and the attribute keeps its source.
C13_NeverReplacesConnection ==
    [][(/\ last'.op \in {"Constraint.parent", "Constraint.point",
                         "Constraint.orient", "Constraint.scale"}
        /\ last'.warning # ScaleWarning
        /\ driven' # <<>>)
       => \A a \in ConstrainedAttrs(last'.op) :
             LET drivenAttr == Plug(driven'[1], a)
             IN  IsDestination(Ctx, drivenAttr)
                 => /\ last'.warning = AlreadyWarning
                    /\ SourcesOf(conns', drivenAttr) = SourcesOf(conns, drivenAttr)]_vars

-----------------------------------------------------------------------------
(* Properties of the derived node names *)

HelperOps == {"mk_decomposition", "mk_blend", "mk_switch", "set_avg_blend", "mk_bc"}

\* the suffixes of the derived names of each node type
DerivedSuffixes(type) ==
    IF type = "decomposeMatrix" THEN {"_decM"}
    ELSE IF type = "wtAddMatrix" THEN {"_blend"}
    ELSE IF type = "choice" THEN {"_switch"}
    ELSE IF type = "multDoubleLinear" THEN {"_wtVal"}
    ELSE IF type = "blendColors" THEN {a \o BC : a \in {POS, ROT, SCL}}
    ELSE {}

DerivedTypes ==
    {"decomposeMatrix", "wtAddMatrix", "choice", "multDoubleLinear", "blendColors"}

\* every node of a derived type carries a derived name exactly (the host never
\* had to number it), and no name is carried by two nodes
DerivedNamesOnce ==
    /\ \A n \in nodes :
          n.type \in DerivedTypes
          => \E o \in Objs, sfx \in DerivedSuffixes(n.type) : n.name = o \o sfx
    /\ \A n, m \in nodes : n.name = m.name => n = m

\* C14: in every state reached by calls of mk_decomposition, mk_blend,
\* mk_switch, set_avg_blend and mk_bc each derived name is carried by one
\* node only, and a call whose target name exists before the call creates no
\* node, while a call whose target name is free creates at most the one node
\* of that name.
C14_DerivedNamesExistOnce ==
    /\ []DerivedNamesOnce
    /\ [][last'.op \in HelperOps
          => /\ nodes \subseteq nodes'
             /\ Cardinality(nodes' \ nodes) <= 1
             /\ last'.ret # <<>>
                => /\ \E n \in nodes' : n.name = last'.ret[1]
                   /\ ObjExists(Ctx, last'.ret[1]) => nodes' = nodes
                   /\ \A n \in nodes' \ nodes : n.name = last'.ret[1]]_vars

\* mk_blend has returned d_blend without an error although d_decM does not
\* exist: the node was there from an earlier call (which failed at its last
\* connection), so this call found the name and created nothing
C14_Witness ==
    /\ last.op = "mk_blend"
    /\ last.error = NoError
    /\ last.ret = <<"d_blend">>
    /\ [name |-> "d_blend", type |-> "wtAddMatrix"] \in nodes
    /\ ~ObjExists(Ctx, "d_decM")

-----------------------------------------------------------------------------
(* Properties of the constraints that blend several drivers *)

\* C15: a call of BlendColor.scale() that leaves the instance with one or two
\* drivers has connected the outputScale of every driver's decomposeMatrix to
\* color<i> of <driven>_scale_bc and the output of that node to the driven
\* object's scale.
C15_ScaleBlendColor ==
    [][(/\ last'.op = "BlendColor.scale"
        /\ driven' # <<>>
        /\ Len(drivers') \in {1, 2})
       => LET bc == driven'[1] \o SCL \o BC
          IN  /\ \A i \in 1..Len(drivers') :
                    [src |-> Plug(drivers'[i] \o "_decM", "outputScale"),
                     dst |-> Plug(bc, "color" \o ToString(i))] \in conns'
              /\ [src |-> Plug(bc, OUT), dst |-> Plug(driven'[1], SCL_ATTR)] \in conns']_vars

\* C16: when parent(), point() or orient() of Constraint completes and the
\* instance has n >= 2 drivers, <driven>_wtVal holds 1/n and feeds
\* wtMatrix[i].weightIn of <driven>_blend for every driver i, and every driver
\* feeds wtMatrix[i].matrixIn, whether the drivers came with this call or with
\* an earlier one.
C16_EvenWeights ==
    [][(/\ last'.op \in {"Constraint.parent", "Constraint.point", "Constraint.orient"}
        /\ last'.error = NoError
        /\ Len(drivers') >= 2)
       => LET n == Len(drivers')
              val == driven'[1] \o "_wtVal"
              blend == driven'[1] \o "_blend"
          IN  /\ [plug |-> Plug(val, "input1"), val |-> Rat(1, n)] \in attrs'
              /\ \A i \in 1..n :
                    /\ [src |-> Plug(val, OUT),
                        dst |-> Plug(blend, "wtMatrix[" \o ToString(i - 1) \o "].weightIn")]
                       \in conns'
                    /\ [src |-> DOut(Ctx, mo, drivers'[i]),
                        dst |-> Plug(blend, "wtMatrix[" \o ToString(i - 1) \o "].matrixIn")]
                       \in conns']_vars

====
